---- MODULE Spec2Model ----
(***************************************************************************)
(* A model of folio: the temporal batcher and the batch-name validator of  *)
(* folio-core (crates/folio-core/src/media.rs) and the ingest command of   *)
(* folio-cli (crates/folio-cli/src/main.rs).                               *)
(*                                                                         *)
(* Timestamps are integers (one unit of time each), durations are signed   *)
(* integers, strings that the code inspects character by character are     *)
(* sequences of one-character strings.                                     *)
(***************************************************************************)
EXTENDS Integers, Sequences, FiniteSets, TLC

\* ------------------------------------------------------------------ bounds
\* longest record list handed to the batcher
MaxItems == 4
\* timestamps of the batcher's records range over 0..MaxTime
MaxTime == 4
\* gap thresholds range over -1..MaxGap
MaxGap == 3
\* longest batch name handed to the validator
MaxNameLen == 3
\* most files under --source
MaxFiles == 2
\* most lines standard input holds before its end
MaxLines == 3
\* most prompts printed by one call of prompt_for_batch_name
MaxPrompts == 5

\* ----------------------------------------------------------- Option<T>
None == [is_some |-> FALSE]
Some(v) == [is_some |-> TRUE, value |-> v]

\* ------------------------------------------------------------- helpers
Last(s) == s[Len(s)]

RECURSIVE Concat(_)
Concat(ss) == IF ss = <<>> THEN <<>> ELSE Head(ss) \o Concat(Tail(ss))

SeqsUpTo(S, n) == UNION {[1..k -> S] : k \in 0..n}

VARIABLES
    \* --- the batcher under test (group_by_temporal_proximity)
    items,          \* the input slice &[MediaItem]
    gap_threshold,  \* the input Duration
    panicked,       \* TRUE when a call unwound with a panic
    batches,        \* the Vec<TemporalBatch> returned for items
    rebatched,      \* the Vec<TemporalBatch> returned for the items of batches
    wider_threshold, \* a second Duration, not below gap_threshold, for Widen
    widened,        \* the Vec<TemporalBatch> returned for items under it
    bpc,            \* "start" | "grouped" | "regrouped" | "widened"
    \* --- the validator under test (validate_batch_name)
    name,           \* the input &str
    verdict,        \* "Ok" or the text of the Err
    vpc,            \* "start" | "done"
    \* --- the ingest command (main, Commands::Ingest)
    dry_run,        \* --dry-run
    batch_name,     \* --batch-name, an Option<String>
    source_fs,      \* the files under --source, in the order the walk meets them
    dest_fs,        \* the files under --dest, in the order a walk meets them
    dest_dirs,      \* the directories that exist under --dest (and --dest itself)
    source_items,   \* Vec<MediaItem> of the source scan
    batches_with_names, \* Vec<(TemporalBatch, String)>
    dest_hashes,    \* the keys of the HashMap built from the destination scan
    copied,         \* counter of the copy loop
    skipped,        \* counter of the copy loop
    batch_idx,      \* the batch the copy loop is at
    item_idx,       \* the item of that batch the copy loop is at
    error,          \* the context of the Err main returned, "" when none
    ipc,            \* where main is
    \* --- the naming functions under test (generate_folder_path,
    \*     generate_filename, and the extension the copy loop hands over)
    nm_timestamp,   \* the input DateTime<Utc>
    nm_label,       \* the input batch_name: &str
    nm_extension,   \* item.path.extension().and_then(|e| e.to_str())
    nm_folder,      \* the PathBuf generate_folder_path returned
    nm_filename,    \* the String generate_filename returned
    npc,            \* "start" | "done"
    \* --- the prompt under test (prompt_for_batch_name)
    stdin,          \* the lines standard input still holds; none: end of input
    prompts,        \* how many times "Enter batch name: " was printed
    returned_name,  \* the Ok(batch_name) returned, None before
    ppc             \* "loop" | "returned" | "failed"

bvars == <<items, gap_threshold, panicked, batches, rebatched, wider_threshold,
           widened, bpc>>
vvars == <<name, verdict, vpc>>
ivars == <<dry_run, batch_name, source_fs, dest_fs, dest_dirs, source_items,
           batches_with_names, dest_hashes, copied, skipped, batch_idx, item_idx,
           error, ipc>>
nvars == <<nm_timestamp, nm_label, nm_extension, nm_folder, nm_filename, npc>>
pvars == <<stdin, prompts, returned_name, ppc>>
vars == <<bvars, vvars, ivars, nvars, pvars>>

\* ====================================================================
\* media.rs: group_by_temporal_proximity
\* ====================================================================

\* items.iter().filter(|item| item.timestamp.is_some()).cloned().collect()
filter_timestamped_keep_all(its) == its
filter_timestamped(its) == SelectSeq(its, LAMBDA item : item.timestamp.is_some)

\* Option<DateTime<Utc>>::cmp : None sorts before every Some
timestamp_le(a, b) ==
    IF ~a.timestamp.is_some THEN TRUE
    ELSE IF ~b.timestamp.is_some THEN FALSE
    ELSE a.timestamp.value <= b.timestamp.value

timestamp_lt(a, b) == ~timestamp_le(b, a)

\* One insertion of a stable sort: item goes behind every element that does
\* not compare greater than it.
RECURSIVE insert_stable(_, _)
insert_stable(sorted, item) ==
    IF sorted = <<>> THEN <<item>>
    ELSE IF timestamp_le(Head(sorted), item)
         THEN <<Head(sorted)>> \o insert_stable(Tail(sorted), item)
         ELSE <<item>> \o sorted

\* The insertion of a sort that is not stable: item goes in front of the
\* elements that compare equal to it.
RECURSIVE insert_unstable(_, _)
insert_unstable(sorted, item) ==
    IF sorted = <<>> THEN <<item>>
    ELSE IF timestamp_lt(Head(sorted), item)
         THEN <<Head(sorted)>> \o insert_unstable(Tail(sorted), item)
         ELSE <<item>> \o sorted

RECURSIVE sort_unstable_by_timestamp(_)
sort_unstable_by_timestamp(its) ==
    IF its = <<>> THEN <<>>
    ELSE insert_unstable(sort_unstable_by_timestamp(SubSeq(its, 1, Len(its) - 1)),
                         Last(its))

\* sorted_items.sort_by(|a, b| a.timestamp.cmp(&b.timestamp)) : slice::sort_by
\* is a stable sort, and the result of a stable sort is unique.
RECURSIVE sort_by_timestamp(_)
sort_by_timestamp(its) ==
    IF its = <<>> THEN <<>>
    ELSE insert_stable(sort_by_timestamp(SubSeq(its, 1, Len(its) - 1)), Last(its))

\* current_batch_items.last().unwrap().timestamp.unwrap()
prev_timestamp_batch_start(current_batch_items, batch_start_time) ==
    batch_start_time
prev_timestamp(current_batch_items, batch_start_time) ==
    Last(current_batch_items).timestamp.value

\* if gap > gap_threshold
gap_exceeded_inclusive(gap, threshold) == gap >= threshold
\* the comparison turned round: a gap below the threshold splits
gap_exceeded_below(gap, threshold) == gap < threshold
gap_exceeded(gap, threshold) == gap > threshold

\* TemporalBatch { start_time: batch_start_time, end_time: batch_end_time, items }
TemporalBatch_end_is_start(batch_start_time, current_batch_items) ==
    [start_time |-> batch_start_time,
     end_time   |-> batch_start_time,
     items      |-> current_batch_items]
TemporalBatch(batch_start_time, current_batch_items) ==
    [start_time |-> batch_start_time,
     end_time   |-> Last(current_batch_items).timestamp.value,
     items      |-> current_batch_items]

\* the result of a call: the value returned, or a panic
Returned(v) == [panic |-> FALSE, value |-> v]
Panic == [panic |-> TRUE, value |-> <<>>]

\* "Don't forget the last batch"
last_batch_forgotten(bs, current_batch_items, batch_start_time) == bs
last_batch(bs, current_batch_items, batch_start_time) ==
    IF current_batch_items # <<>>
    THEN Append(bs, TemporalBatch(batch_start_time, current_batch_items))
    ELSE bs

\* for item in sorted_items { ... } followed by the push of the last batch;
\* i is the index of the item the loop is at.
RECURSIVE group_loop(_, _, _, _, _, _)
group_loop(sorted_items, threshold, i, bs, current_batch_items, batch_start_time) ==
    IF i > Len(sorted_items)
    THEN Returned(last_batch(bs, current_batch_items, batch_start_time))
    ELSE LET item == sorted_items[i] IN
         IF ~item.timestamp.is_some THEN Panic   \* item.timestamp.unwrap()
         ELSE LET item_timestamp == item.timestamp.value IN
              IF current_batch_items = <<>>
              THEN group_loop(sorted_items, threshold, i + 1, bs, <<item>>,
                              batch_start_time)
              ELSE LET gap == item_timestamp
                              - prev_timestamp(current_batch_items, batch_start_time) IN
                   IF gap_exceeded(gap, threshold)
                   THEN group_loop(sorted_items, threshold, i + 1,
                                   Append(bs, TemporalBatch(batch_start_time,
                                                            current_batch_items)),
                                   <<item>>, item_timestamp)
                   ELSE group_loop(sorted_items, threshold, i + 1, bs,
                                   Append(current_batch_items, item),
                                   batch_start_time)

group_by_temporal_proximity(its, threshold) ==
    IF its = <<>> THEN Returned(<<>>)
    ELSE LET sorted_items == sort_by_timestamp(filter_timestamped(its)) IN
         IF sorted_items = <<>> THEN Returned(<<>>)
         ELSE IF ~sorted_items[1].timestamp.is_some THEN Panic
         ELSE group_loop(sorted_items, threshold, 1, <<>>, <<>>,
                         sorted_items[1].timestamp.value)

\* ====================================================================
\* media.rs: validate_batch_name
\* ====================================================================

\* the characters names are drawn from
Chars == {"a", "Z", "7", "é", "-", "_", " ", "!"}

\* char::is_alphanumeric (Unicode letters and digits) on the characters of
\* the model
Letters == {"a", "b", "c", "d", "h", "l", "o", "t", "Z", "é"}
Digits == {"0", "1", "2", "3", "4", "5", "6", "7", "8", "9"}
is_alphanumeric(c) == c \in Letters \cup Digits

ErrEmpty == "Batch name cannot be empty"
ErrCharset ==
    "Batch name must contain only alphanumeric characters, hyphens, and underscores"
ErrNoAlnum == "Batch name must contain at least one alphanumeric character"

is_valid(n) == \A i \in 1..Len(n) : is_alphanumeric(n[i]) \/ n[i] = "-" \/ n[i] = "_"
has_alphanumeric(n) == \E i \in 1..Len(n) : is_alphanumeric(n[i])

validate_batch_name_no_alnum_rule(n) ==
    IF n = <<>> THEN ErrEmpty
    ELSE IF ~is_valid(n) THEN ErrCharset
    ELSE "Ok"

validate_batch_name_alnum_rule_first(n) ==
    IF n = <<>> THEN ErrEmpty
    ELSE IF ~has_alphanumeric(n) THEN ErrNoAlnum
    ELSE IF ~is_valid(n) THEN ErrCharset
    ELSE "Ok"

validate_batch_name(n) ==
    IF n = <<>> THEN ErrEmpty
    ELSE IF ~is_valid(n) THEN ErrCharset
    ELSE IF ~has_alphanumeric(n) THEN ErrNoAlnum
    ELSE "Ok"

\* ====================================================================
\* The batcher applied to every bounded input
\* ====================================================================
TimestampOpts == {None} \cup {Some(t) : t \in 0..MaxTime}

\* record i of the input is the file of path i
ItemLists ==
    {[i \in 1..Len(ts) |-> [path |-> i, timestamp |-> ts[i]]] :
        ts \in SeqsUpTo(TimestampOpts, MaxItems)}

GapThresholds == (0 - 1)..MaxGap

ValidateIdle == name = <<>> /\ verdict = "" /\ vpc = "idle"

NamingIdle ==
    /\ nm_timestamp = None /\ nm_label = <<>> /\ nm_extension = None
    /\ nm_folder = <<>> /\ nm_filename = <<>> /\ npc = "idle"

PromptIdle == stdin = <<>> /\ prompts = 0 /\ returned_name = None /\ ppc = "idle"

IngestIdle ==
    /\ dry_run = FALSE /\ batch_name = None /\ source_fs = <<>> /\ dest_fs = <<>>
    /\ dest_dirs = {} /\ source_items = <<>> /\ batches_with_names = <<>>
    /\ dest_hashes = {} /\ copied = 0 /\ skipped = 0 /\ batch_idx = 0
    /\ item_idx = 0 /\ error = "" /\ ipc = "idle"

BatchInit ==
    /\ items \in ItemLists
    /\ gap_threshold \in GapThresholds
    /\ panicked = FALSE
    /\ batches = <<>>
    /\ rebatched = <<>>
    /\ wider_threshold = gap_threshold
    /\ widened = <<>>
    /\ bpc = "start"
    /\ ValidateIdle
    /\ IngestIdle
    /\ NamingIdle
    /\ PromptIdle

\* let batches = group_by_temporal_proximity(&items, gap_threshold)
Group ==
    /\ bpc = "start"
    /\ LET r == group_by_temporal_proximity(items, gap_threshold) IN
        /\ panicked' = r.panic
        /\ batches' = r.value
    /\ bpc' = "grouped"
    /\ UNCHANGED <<pvars, nvars, items, gap_threshold, rebatched, wider_threshold, widened,
                   vvars, ivars>>

\* the batcher run again on the items of its own output, in output order
Regroup ==
    /\ bpc = "grouped"
    /\ ~panicked
    /\ LET again == [b \in 1..Len(batches) |-> batches[b].items]
           r == group_by_temporal_proximity(Concat(again), gap_threshold) IN
        /\ panicked' = r.panic
        /\ rebatched' = r.value
    /\ bpc' = "regrouped"
    /\ UNCHANGED <<pvars, nvars, items, gap_threshold, batches, wider_threshold, widened,
                   vvars, ivars>>

\* let widened = group_by_temporal_proximity(&items, wider_threshold): the
\* batcher run on the same items under the second threshold
Widen ==
    /\ bpc = "grouped"
    /\ ~panicked
    /\ \E t \in GapThresholds :
        /\ t >= gap_threshold
        /\ wider_threshold' = t
        /\ LET r == group_by_temporal_proximity(items, t) IN
            /\ panicked' = r.panic
            /\ widened' = r.value
    /\ bpc' = "widened"
    /\ UNCHANGED <<pvars, nvars, items, gap_threshold, batches, rebatched, vvars, ivars>>

BatchNext == Group \/ Regroup \/ Widen

BatchSpec == BatchInit /\ [][BatchNext]_vars

\* ====================================================================
\* The validator applied to every bounded name
\* ====================================================================
Names == SeqsUpTo(Chars, MaxNameLen)

BatchIdle ==
    /\ items = <<>> /\ gap_threshold = 0 /\ panicked = FALSE
    /\ batches = <<>> /\ rebatched = <<>> /\ wider_threshold = 0
    /\ widened = <<>> /\ bpc = "idle"

ValidateInit ==
    /\ name \in Names
    /\ verdict = ""
    /\ vpc = "start"
    /\ BatchIdle
    /\ IngestIdle
    /\ NamingIdle
    /\ PromptIdle

Validate ==
    /\ vpc = "start"
    /\ verdict' = validate_batch_name(name)
    /\ vpc' = "done"
    /\ UNCHANGED <<pvars, nvars, name, bvars, ivars>>

ValidateNext == Validate

ValidateSpec == ValidateInit /\ [][ValidateNext]_vars

\* ====================================================================
\* media.rs: detect_media_type, get_capture_timestamp,
\* get_file_modified_date, generate_folder_path, generate_filename,
\* scan_directory
\* ====================================================================
\* A file of a tree is [path, ext, hash, exif, mtime, readable]: ext is the
\* extension of path (None when it has none), hash the BLAKE3 digest of its
\* bytes, exif the DateTimeOriginal its bytes carry, mtime its modification
\* time (None when the filesystem gives none), readable whether it opens.

\* str::to_lowercase on the extensions of the model
to_lowercase(e) == CASE e = "JPG" -> "jpg" [] e = "MOV" -> "mov" [] OTHER -> e

detect_media_type(ext) ==
    IF ~ext.is_some THEN None
    ELSE LET e == to_lowercase(ext.value) IN
         IF e \in {"jpg", "jpeg"} THEN Some([kind |-> "Photo", format |-> "Jpeg"])
         ELSE IF e = "mov" THEN Some([kind |-> "Video", format |-> "Mov"])
         ELSE IF e = "mp4" THEN Some([kind |-> "Video", format |-> "Mp4"])
         ELSE None

\* Ok(Some(DateTimeOriginal)) for a photo that carries one, Ok(None) otherwise
get_capture_timestamp(file, media_type) ==
    IF media_type.kind = "Photo" THEN file.exif ELSE None

\* a modification time that cannot be read is taken to be the current time
get_file_modified_date_or_now(file) ==
    IF file.mtime.is_some THEN file.mtime ELSE Some(41)
\* get_file_modified_date(path).ok()
get_file_modified_date_ok(file) == file.mtime

\* Option::or_else
or_else(opt, other) == IF opt.is_some THEN opt ELSE other

\* A DateTime<Utc> handed to the naming functions is the record of the
\* fields its accessors year() .. second() give. Texts are sequences of
\* one-character strings; an extension and a fixed folder name are one
\* element each.
DateTime(y, mo, d, h, mi, s) ==
    [year |-> y, month |-> mo, day |-> d, hour |-> h, minute |-> mi, second |-> s]

\* The DateTime<Utc> of a timestamp of the ingest model: these count the
\* hours from 2024-11-04T00:00:00Z (and stay within November).
utc(t) == DateTime(2024, 11, 4 + (t \div 24), t % 24, 0, 0)

\* the decimal digits of a number that is not negative (Display for integers)
RECURSIVE to_string(_)
to_string(n) ==
    LET digit == <<"0", "1", "2", "3", "4", "5", "6", "7", "8", "9">>[(n % 10) + 1] IN
    IF n < 10 THEN <<digit>> ELSE Append(to_string(n \div 10), digit)

RECURSIVE fill(_, _, _)
fill(text, width, c) ==
    IF Len(text) >= width THEN text ELSE fill(<<c>> \o text, width, c)

\* "{:4}" and "{:2}": filled with spaces
pad_with_spaces(n, width) == fill(to_string(n), width, " ")
\* "{:04}" and "{:02}": filled with zeros to at least width digits
pad(n, width) == fill(to_string(n), width, "0")

\* format!("{:04}/{:02}/{:02}", year, month, day)
generate_folder_path(timestamp) ==
    pad(timestamp.year, 4) \o <<"/">> \o pad(timestamp.month, 2) \o <<"/">>
        \o pad(timestamp.day, 2)

\* PathBuf::from("unknown-date")
unknown_date == <<"unknown-date">>

\* format!("{:04}{:02}{:02}-{:02}{:02}{:02}-{}.{}", year, month, day, hour,
\* minute, second, batch_name, original_extension)
generate_filename(timestamp, label, original_extension) ==
    pad(timestamp.year, 4) \o pad(timestamp.month, 2) \o pad(timestamp.day, 2)
        \o <<"-">>
        \o pad(timestamp.hour, 2) \o pad(timestamp.minute, 2)
        \o pad(timestamp.second, 2)
        \o <<"-">> \o label \o <<".">> \o <<original_extension>>

ScanOk(its) == [ok |-> TRUE, items |-> its]
ScanErr == [ok |-> FALSE, items |-> <<>>]

\* for entry in WalkDir::new(path) { ... }, i the entry the walk is at
RECURSIVE scan_loop(_, _, _)
scan_loop(fs, i, acc) ==
    IF i > Len(fs) THEN ScanOk(acc)
    ELSE LET file == fs[i]
             media_type == detect_media_type(file.ext) IN
         IF ~media_type.is_some THEN scan_loop(fs, i + 1, acc)
         ELSE IF ~file.readable THEN ScanErr          \* hash_file(file_path)?
         ELSE LET timestamp == or_else(get_capture_timestamp(file, media_type.value),
                                       get_file_modified_date_ok(file))
                  folder_path == IF timestamp.is_some
                                 THEN generate_folder_path(utc(timestamp.value))
                                 ELSE unknown_date IN
              scan_loop(fs, i + 1,
                        Append(acc, [path        |-> file.path,
                                     ext         |-> file.ext,
                                     hash        |-> file.hash,
                                     media_type  |-> media_type.value,
                                     timestamp   |-> timestamp,
                                     folder_path |-> folder_path]))

scan_directory(fs) == scan_loop(fs, 1, <<>>)

\* ====================================================================
\* main.rs: the ingest command
\* ====================================================================
\* #[arg(long, default_value = "2.0")] gap_threshold, in hours
default_gap_threshold == 2

\* the instants Utc::now() and a late fs::metadata can give
NowTimes == {40, 41}

\* the digests of the model
Hashes == {"1", "2"}

Min(S) == CHOOSE x \in S : \A y \in S : x <= y
Max(S) == CHOOSE x \in S : \A y \in S : y <= x

\* str::trim
is_whitespace(c) == c \in {" ", "\n"}

RECURSIVE trim_start(_)
trim_start(line) ==
    IF line # <<>> /\ is_whitespace(Head(line)) THEN trim_start(Tail(line)) ELSE line

RECURSIVE trim_end(_)
trim_end(line) ==
    IF line # <<>> /\ is_whitespace(Last(line))
    THEN trim_end(SubSeq(line, 1, Len(line) - 1))
    ELSE line

trim(line) == trim_end(trim_start(line))

\* the lines read_line can deliver; <<>> is the end of input
InputLines ==
    {<<"a", "\n">>, <<" ", "Z", " ", "\n">>, <<"-", "\n">>, <<"a", " ", "7", "\n">>,
     <<"\n">>, <<>>}

\* the values --batch-name is given
ArgNames == {<<"a">>, <<"a", " ", "7">>}

\* format!("batch-{}", i + 1), i counting from 0
placeholder_name(i) == <<"b", "a", "t", "c", "h", "-">> \o to_string(i + 1)

\* dest_path itself
dest_root == <<>>

\* dest_hashes.contains_key(&item.hash)
contains_key_never(index, hash) == FALSE
contains_key(index, hash) == hash \in index

\* dest_items.iter().map(|item| (item.hash, &item.path)).collect(): the keys
hash_index(dest_items) == {dest_items[i].hash : i \in 1..Len(dest_items)}

\* scan_directory(&dest_path).unwrap_or_default()
unwrap_or_default(r) == IF r.ok THEN r.items ELSE <<>>

\* a path without extension gives the empty extension
extension_of_or_empty(item) == IF item.ext.is_some THEN item.ext.value ELSE ""
\* item.path.extension().and_then(|e| e.to_str()).unwrap_or("jpg")
extension_of(item) == IF item.ext.is_some THEN item.ext.value ELSE "jpg"

\* a copy never takes the place of a file that is there
written_beside(fs, file) == Append(fs, file)
\* fs::copy(&item.path, &dest_file): the file at dest_file now holds the
\* bytes of the source; a file that was at dest_file is overwritten
written(fs, file) ==
    IF \E i \in 1..Len(fs) : fs[i].path = file.path
    THEN [i \in 1..Len(fs) |-> IF fs[i].path = file.path THEN file ELSE fs[i]]
    ELSE Append(fs, file)

\* the modification time of a file the run writes (no step of the run reads
\* it again)
copy_time == Max(NowTimes)

\* the source file a record was built from
source_file(item) == source_fs[item.path]

\* min and max of the timestamps present, Utc::now() when there is none
present_timestamps(its) ==
    {its[i].timestamp.value : i \in {j \in 1..Len(its) : its[j].timestamp.is_some}}

\* the --batch-name value is taken as it is
ValidateArg_unchecked ==
    /\ ipc = "start"
    /\ ipc' = "scan_source"
    /\ UNCHANGED <<pvars, nvars, bvars, vvars, dry_run, batch_name, source_fs, dest_fs,
                   dest_dirs,
                   source_items, batches_with_names, dest_hashes, copied, skipped,
                   batch_idx, item_idx, error>>

\* validate_batch_name(name).context("Invalid batch name")?
ValidateArg ==
    /\ ipc = "start"
    /\ IF batch_name.is_some /\ validate_batch_name(batch_name.value) # "Ok"
       THEN ipc' = "failed" /\ error' = "Invalid batch name"
       ELSE ipc' = "scan_source" /\ error' = error
    /\ UNCHANGED <<pvars, nvars, bvars, vvars, dry_run, batch_name, source_fs, dest_fs,
                   dest_dirs,
                   source_items, batches_with_names, dest_hashes, copied, skipped,
                   batch_idx, item_idx>>

\* scan_directory(&source_path).context("Failed to scan source directory")?
\* and the return when nothing was found
ScanSource ==
    /\ ipc = "scan_source"
    /\ LET r == scan_directory(source_fs) IN
        IF ~r.ok
        THEN ipc' = "failed" /\ error' = "Failed to scan source directory"
             /\ source_items' = source_items
        ELSE /\ source_items' = r.items
             /\ error' = error
             /\ ipc' = IF r.items = <<>> THEN "done" ELSE "plan"
    /\ UNCHANGED <<pvars, nvars, bvars, vvars, dry_run, batch_name, source_fs, dest_fs,
                   dest_dirs,
                   batches_with_names, dest_hashes, copied, skipped, batch_idx,
                   item_idx>>

\* the plan is carried out whether or not --dry-run was given
AfterPlan_ignores_dry_run == "create_dest"
\* if !dry_run { create the destination, index it, copy }; then Ok(())
AfterPlan == IF dry_run THEN "done" ELSE "create_dest"

\* only the records that have a timestamp are planned
single_batch_items_timestamped(its) == filter_timestamped(its)
\* items: source_items.clone()
single_batch_items(its) == its

\* --batch-name given: all the records form one batch of that name
PlanSingleBatch ==
    /\ ipc = "plan"
    /\ batch_name.is_some
    /\ \E now1 \in NowTimes, now2 \in NowTimes :
        LET present == present_timestamps(source_items)
            all_batch == [start_time |-> IF present # {} THEN Min(present) ELSE now1,
                          end_time   |-> IF present # {} THEN Max(present) ELSE now2,
                          items      |-> single_batch_items(source_items)] IN
        batches_with_names' = <<[batch |-> all_batch, name |-> batch_name.value]>>
    /\ ipc' = AfterPlan
    /\ UNCHANGED <<pvars, nvars, bvars, vvars, dry_run, batch_name, source_fs, dest_fs,
                   dest_dirs,
                   source_items, dest_hashes, copied, skipped, batch_idx, item_idx,
                   error>>

\* no --batch-name: the temporal batches are detected; none gives an empty
\* plan, --dry-run names them batch-1, batch-2, ..., otherwise they are
\* prompted for
DetectBatches ==
    /\ ipc = "plan"
    /\ ~batch_name.is_some
    /\ LET r == group_by_temporal_proximity(source_items, gap_threshold) IN
        /\ panicked' = r.panic
        /\ batches' = r.value
        /\ IF r.panic
           THEN ipc' = "panicked" /\ batches_with_names' = batches_with_names
           ELSE IF r.value = <<>>
           THEN ipc' = AfterPlan /\ batches_with_names' = <<>>
           ELSE IF dry_run
           THEN /\ ipc' = AfterPlan
                /\ batches_with_names' =
                      [i \in 1..Len(r.value) |->
                          [batch |-> r.value[i],
                           name  |-> placeholder_name(i - 1)]]
           ELSE ipc' = "prompt" /\ batches_with_names' = <<>>
    /\ UNCHANGED <<pvars, nvars, items, gap_threshold, rebatched, wider_threshold, widened, bpc,
                   vvars, dry_run, batch_name,
                   source_fs, dest_fs, dest_dirs, source_items, dest_hashes, copied,
                   skipped, batch_idx, item_idx, error>>

\* the batches are taken from the last to the first
next_unnamed_from_last(bs, named) == bs[Len(bs) - Len(named)]
\* for (i, batch) in batches.into_iter().enumerate(): the batch the next
\* name is asked for, after those already named
next_unnamed(bs, named) == bs[Len(named) + 1]

\* prompt_for_batch_name for the next batch: one line is read and trimmed; a
\* line that validates names the batch, any other is asked for again
Prompt ==
    /\ ipc = "prompt"
    /\ \E line \in InputLines :
        LET i == Len(batches_with_names) + 1
            answer == trim(line) IN
        IF validate_batch_name(answer) = "Ok"
        THEN /\ batches_with_names' =
                   Append(batches_with_names,
                          [batch |-> next_unnamed(batches, batches_with_names),
                           name  |-> answer])
             /\ ipc' = IF i = Len(batches) THEN AfterPlan ELSE "prompt"
        ELSE UNCHANGED <<batches_with_names, ipc>>
    /\ UNCHANGED <<pvars, nvars, bvars, vvars, dry_run, batch_name, source_fs, dest_fs,
                   dest_dirs,
                   source_items, dest_hashes, copied, skipped, batch_idx, item_idx,
                   error>>

\* io::stdout().flush()? or io::stdin().read_line(&mut input)? fails
PromptFails ==
    /\ ipc = "prompt"
    /\ ipc' = "failed"
    /\ error' = "io"
    /\ UNCHANGED <<pvars, nvars, bvars, vvars, dry_run, batch_name, source_fs, dest_fs,
                   dest_dirs,
                   source_items, batches_with_names, dest_hashes, copied, skipped,
                   batch_idx, item_idx>>

\* fs::create_dir_all(&dest_path)
CreateDest ==
    /\ ipc = "create_dest"
    /\ dest_dirs' = dest_dirs \cup {dest_root}
    /\ ipc' = "scan_dest"
    /\ UNCHANGED <<pvars, nvars, bvars, vvars, dry_run, batch_name, source_fs, dest_fs,
                   source_items,
                   batches_with_names, dest_hashes, copied, skipped, batch_idx,
                   item_idx, error>>

\* fs::create_dir_all(&dest_path).context("Failed to create destination directory")?
CreateDestFails ==
    /\ ipc = "create_dest"
    /\ ipc' = "failed"
    /\ error' = "Failed to create destination directory"
    /\ UNCHANGED <<pvars, nvars, bvars, vvars, dry_run, batch_name, source_fs, dest_fs,
                   dest_dirs,
                   source_items, batches_with_names, dest_hashes, copied, skipped,
                   batch_idx, item_idx>>

\* the destination is scanned and its hashes indexed; a scan that fails
\* gives the empty index; the counters and the loop start
ScanDest ==
    /\ ipc = "scan_dest"
    /\ dest_hashes' = hash_index(unwrap_or_default(scan_directory(dest_fs)))
    /\ copied' = 0
    /\ skipped' = 0
    /\ batch_idx' = 1
    /\ item_idx' = 1
    /\ ipc' = "copy"
    /\ UNCHANGED <<pvars, nvars, bvars, vvars, dry_run, batch_name, source_fs, dest_fs,
                   dest_dirs,
                   source_items, batches_with_names, error>>

InCopyLoop == ipc = "copy" /\ batch_idx <= Len(batches_with_names)

current_batch == batches_with_names[batch_idx].batch
current_item == current_batch.items[item_idx]

Advance ==
    IF item_idx < Len(current_batch.items)
    THEN item_idx' = item_idx + 1 /\ batch_idx' = batch_idx
    ELSE item_idx' = 1 /\ batch_idx' = batch_idx + 1

\* the folder is made anew from the timestamp the filename is made from
dest_file_of_dated_anew(item, label, fallback) ==
    LET timestamp == IF item.timestamp.is_some THEN item.timestamp.value ELSE fallback
        dest_filename == generate_filename(utc(timestamp), label,
                                           extension_of(item)) IN
    [folder |-> generate_folder_path(utc(timestamp)), file |-> dest_filename]

\* the destination of the current item when its fallback timestamp is fallback
dest_file_of(item, label, fallback) ==
    LET timestamp == IF item.timestamp.is_some THEN item.timestamp.value ELSE fallback
        dest_filename == generate_filename(utc(timestamp), label,
                                           extension_of(item)) IN
    [folder |-> item.folder_path, file |-> dest_filename]

FallbackTimes(item) ==
    IF item.timestamp.is_some THEN {item.timestamp.value}
    ELSE NowTimes \cup (IF source_file(item).mtime.is_some
                        THEN {source_file(item).mtime.value} ELSE {})

\* one turn of the copy loop whose filesystem calls succeed: the folder is
\* created, then the item is skipped when its hash is in the index and
\* copied otherwise
CopyItem ==
    /\ InCopyLoop
    /\ \E fallback \in FallbackTimes(current_item) :
        LET item == current_item
            dest_file == dest_file_of(item, batches_with_names[batch_idx].name,
                                      fallback) IN
        /\ dest_dirs' = dest_dirs \cup {item.folder_path}
        /\ IF contains_key(dest_hashes, item.hash)
           THEN /\ skipped' = skipped + 1
                /\ UNCHANGED <<copied, dest_fs>>
           ELSE /\ dest_fs' = written(dest_fs,
                                      [path     |-> dest_file,
                                       ext      |-> Some(extension_of(item)),
                                       hash     |-> item.hash,
                                       exif     |-> source_file(item).exif,
                                       mtime    |-> Some(copy_time),
                                       readable |-> TRUE])
                /\ copied' = copied + 1
                /\ skipped' = skipped
    /\ Advance
    /\ UNCHANGED <<pvars, nvars, bvars, vvars, dry_run, batch_name, source_fs, source_items,
                   batches_with_names, dest_hashes, error, ipc>>

\* fs::create_dir_all(&dest_folder).context("Failed to create date-based folder")?
CreateFolderFails ==
    /\ InCopyLoop
    /\ ipc' = "failed"
    /\ error' = "Failed to create date-based folder"
    /\ UNCHANGED <<pvars, nvars, bvars, vvars, dry_run, batch_name, source_fs, dest_fs,
                   dest_dirs,
                   source_items, batches_with_names, dest_hashes, copied, skipped,
                   batch_idx, item_idx>>

\* fs::copy(&item.path, &dest_file).context("Failed to copy ...")?
CopyFails ==
    /\ InCopyLoop
    /\ ~contains_key(dest_hashes, current_item.hash)
    /\ dest_dirs' = dest_dirs \cup {current_item.folder_path}
    /\ ipc' = "failed"
    /\ error' = "Failed to copy"
    /\ UNCHANGED <<pvars, nvars, bvars, vvars, dry_run, batch_name, source_fs, dest_fs,
                   source_items,
                   batches_with_names, dest_hashes, copied, skipped, batch_idx,
                   item_idx>>

\* the loop is over: the counters are printed and main returns Ok(())
Report ==
    /\ ipc = "copy"
    /\ batch_idx > Len(batches_with_names)
    /\ ipc' = "done"
    /\ UNCHANGED <<pvars, nvars, bvars, vvars, dry_run, batch_name, source_fs, dest_fs,
                   dest_dirs,
                   source_items, batches_with_names, dest_hashes, copied, skipped,
                   batch_idx, item_idx, error>>

\* ------------------------------------------------- the trees of the model
\* what a file of the source can be, its path apart
MediaShapes ==
    {[ext |-> Some(e), hash |-> h, exif |-> t[1], mtime |-> t[2], readable |-> TRUE] :
        e \in {"jpg", "MOV"}, h \in Hashes,
        t \in {<<None, None>>, <<None, Some(1)>>, <<Some(30), Some(1)>>}}

OtherShapes ==
    {[ext |-> Some("txt"), hash |-> "1", exif |-> None, mtime |-> Some(1),
      readable |-> TRUE],
     [ext |-> None, hash |-> "1", exif |-> None, mtime |-> Some(1),
      readable |-> TRUE],
     [ext |-> Some("jpg"), hash |-> "1", exif |-> None, mtime |-> Some(1),
      readable |-> FALSE]}

at_path(shape, p) ==
    [path |-> p, ext |-> shape.ext, hash |-> shape.hash, exif |-> shape.exif,
     mtime |-> shape.mtime, readable |-> shape.readable]

\* file i of the source is the file of path i
SourceTrees ==
    {[i \in 1..Len(shapes) |-> at_path(shapes[i], i)] :
        shapes \in SeqsUpTo(MediaShapes \cup OtherShapes, MaxFiles)}

existing_folder == <<"existing">>

\* the file a former run left in the destination for the bytes of hash h
existing_file(h, ok) ==
    [path     |-> [folder |-> existing_folder,
                   file   |-> <<"o", "l", "d", "-", h, ".", "jpg">>],
     ext      |-> Some("jpg"),
     hash     |-> h,
     exif     |-> None,
     mtime    |-> Some(1),
     readable |-> ok]

\* the destination holds a file for some of the hashes; one of them may be
\* a file that cannot be read
DestTrees ==
    {<<>>}
    \cup {<<existing_file(h, ok)>> : h \in Hashes, ok \in BOOLEAN}
    \cup {<<existing_file("1", ok), existing_file("2", TRUE)>> : ok \in BOOLEAN}

IngestInit ==
    /\ dry_run \in BOOLEAN
    /\ batch_name \in {None} \cup {Some(n) : n \in ArgNames}
    /\ source_fs \in SourceTrees
    /\ dest_fs \in DestTrees
    /\ dest_dirs = IF dest_fs = <<>> THEN {} ELSE {dest_root, existing_folder}
    /\ source_items = <<>>
    /\ batches_with_names = <<>>
    /\ dest_hashes = {}
    /\ copied = 0 /\ skipped = 0 /\ batch_idx = 0 /\ item_idx = 0
    /\ error = ""
    /\ ipc = "start"
    /\ items = <<>> /\ gap_threshold = default_gap_threshold /\ panicked = FALSE
    /\ batches = <<>> /\ rebatched = <<>> /\ wider_threshold = 0
    /\ widened = <<>> /\ bpc = "idle"
    /\ ValidateIdle
    /\ NamingIdle
    /\ PromptIdle

IngestNext ==
    \/ ValidateArg
    \/ ScanSource
    \/ PlanSingleBatch
    \/ DetectBatches
    \/ Prompt
    \/ PromptFails
    \/ CreateDest
    \/ CreateDestFails
    \/ ScanDest
    \/ CopyItem
    \/ CreateFolderFails
    \/ CopyFails
    \/ Report

IngestSpec == IngestInit /\ [][IngestNext]_vars

\* ====================================================================
\* Properties of group_by_temporal_proximity
\* ====================================================================
Grouped == bpc \in {"grouped", "regrouped"}

ts(item) == item.timestamp.value

\* the items of the returned batches, in output order
Flat == Concat([b \in 1..Len(batches) |-> batches[b].items])

\* the batch that holds position p of Flat
RECURSIVE batch_of_position(_, _)
batch_of_position(p, b) ==
    IF p <= Len(batches[b].items) THEN b
    ELSE batch_of_position(p - Len(batches[b].items), b + 1)

Timestamped == {i \in 1..Len(items) : items[i].timestamp.is_some}

\* C1: between two consecutive batches the gap from the last item of the
\* first to the first item of the second is strictly greater than the
\* threshold, and inside a batch every two consecutive items are at most the
\* threshold apart (a gap equal to the threshold does not split).
C1_GapsRespectThreshold ==
    Grouped =>
        /\ \A k \in 1..(Len(batches) - 1) :
              ts(batches[k + 1].items[1]) - ts(Last(batches[k].items)) > gap_threshold
        /\ \A k \in 1..Len(batches) :
              \A j \in 1..(Len(batches[k].items) - 1) :
                 ts(batches[k].items[j + 1]) - ts(batches[k].items[j]) <= gap_threshold

\* two batches are returned, and one of them holds two consecutive items
\* whose gap is exactly the (positive) threshold
C1_Witness ==
    /\ Grouped
    /\ gap_threshold > 0
    /\ Len(batches) >= 2
    /\ \E k \in 1..Len(batches) :
          \E j \in 1..(Len(batches[k].items) - 1) :
             ts(batches[k].items[j + 1]) - ts(batches[k].items[j]) = gap_threshold

\* C2: batching the items of the returned batches again, in output order and
\* with the same threshold, returns the same batches (same number, same
\* items, same start_time and end_time).
C2_Idempotent ==
    bpc = "regrouped" => ~panicked /\ rebatched = batches

\* an unsorted input with an untimestamped record was split into batches
\* and batched again
C2_Witness ==
    /\ bpc = "regrouped"
    /\ Len(batches) >= 2
    /\ Timestamped # 1..Len(items)
    /\ \E i, j \in Timestamped : i < j /\ ts(items[j]) < ts(items[i])

\* C3: an empty input and an input whose records all lack a timestamp give
\* no batch and no panic; no record without a timestamp is in any batch.
C3_NoTimestampNoBatch ==
    Grouped =>
        /\ ~panicked
        /\ Timestamped = {} => batches = <<>>
        /\ \A k \in 1..Len(batches) :
              \A j \in 1..Len(batches[k].items) : batches[k].items[j].timestamp.is_some

\* a list of two or more records, none with a timestamp, has been batched
C3_Witness ==
    /\ bpc = "grouped"
    /\ Len(items) >= 2
    /\ Timestamped = {}
    /\ batches = <<>>

\* C4: an input with exactly one timestamped record gives exactly one batch,
\* that holds this record alone and starts and ends at its timestamp,
\* whatever the threshold.
C4_SingleRecordSingleBatch ==
    (Grouped /\ Cardinality(Timestamped) = 1) =>
        LET i == CHOOSE i \in Timestamped : TRUE IN
        /\ ~panicked
        /\ Len(batches) = 1
        /\ batches[1].items = <<items[i]>>
        /\ batches[1].start_time = ts(items[i])
        /\ batches[1].end_time = ts(items[i])

\* one timestamped record among untimestamped ones, batched with threshold 0
C4_Witness ==
    /\ bpc = "grouped"
    /\ gap_threshold = 0
    /\ Cardinality(Timestamped) = 1
    /\ Len(items) >= 2
    /\ Len(batches) = 1

\* C5: a record stays in the batch of the record just before it exactly when
\* the gap between the two is at most the threshold, whatever its distance
\* from the start of the batch.
C5_GapToPredecessorDecides ==
    Grouped =>
        \A p \in 1..(Len(Flat) - 1) :
            (ts(Flat[p + 1]) - ts(Flat[p]) <= gap_threshold)
                <=> (batch_of_position(p + 1, 1) = batch_of_position(p, 1))

\* a batch that spans more than the threshold: its last record is further
\* from start_time than the threshold allows between neighbours
C5_Witness ==
    /\ Grouped
    /\ gap_threshold > 0
    /\ \E k \in 1..Len(batches) :
          /\ batches[k].end_time - batches[k].start_time > gap_threshold
          /\ ts(Last(batches[k].items)) - batches[k].start_time > gap_threshold

\* C6: in every batch the items are in ascending timestamp order, start_time
\* is the timestamp of the first item, end_time the timestamp of the last,
\* and start_time <= end_time.
C6_BatchShape ==
    Grouped =>
        \A k \in 1..Len(batches) :
            LET b == batches[k] IN
            /\ b.items # <<>>
            /\ \A j \in 1..(Len(b.items) - 1) : ts(b.items[j]) <= ts(b.items[j + 1])
            /\ b.start_time = ts(b.items[1])
            /\ b.end_time = ts(Last(b.items))
            /\ b.start_time <= b.end_time

\* two batches, the second of which has items of different timestamps
C6_Witness ==
    /\ Grouped
    /\ Len(batches) >= 2
    /\ Len(batches[2].items) >= 2
    /\ batches[2].start_time < batches[2].end_time

\* C7: records of equal timestamp come out in the order they had in the
\* input list (record i of the input is the one of path i).
C7_StableOrder ==
    Grouped =>
        \A p, q \in 1..Len(Flat) :
            (p < q /\ ts(Flat[p]) = ts(Flat[q])) => Flat[p].path < Flat[q].path

\* two records of equal timestamp came out in one batch, from an input where
\* a record of a smaller timestamp stood behind them
C7_Witness ==
    /\ Grouped
    /\ \E i, j, l \in Timestamped :
          /\ i < j /\ j < l
          /\ ts(items[i]) = ts(items[j])
          /\ ts(items[l]) < ts(items[i])
    /\ \E k \in 1..Len(batches) :
          \E j \in 1..(Len(batches[k].items) - 1) :
             ts(batches[k].items[j]) = ts(batches[k].items[j + 1])

\* ====================================================================
\* Properties of validate_batch_name
\* ====================================================================
CharsOf(n) == {n[i] : i \in 1..Len(n)}
Alphanumerics == {c \in Chars : is_alphanumeric(c)}
Separators == {"-", "_"}

\* C8: the name is accepted exactly when it is not empty, holds only
\* alphanumeric characters, '-' and '_', and holds an alphanumeric character.
C8_AcceptsExactlyValidNames ==
    vpc = "done" =>
        ((verdict = "Ok") <=>
            /\ name # <<>>
            /\ CharsOf(name) \subseteq Alphanumerics \cup Separators
            /\ CharsOf(name) \cap Alphanumerics # {})

\* a name of separators alone has been refused
C8_Witness ==
    /\ vpc = "done"
    /\ Len(name) >= 2
    /\ CharsOf(name) \subseteq Separators
    /\ verdict # "Ok"

\* C9: the rules are tried in the order empty, illegal character, no
\* alphanumeric character, and the first one broken gives the reason; the
\* three reasons differ.
C9_FirstBrokenRuleReported ==
    /\ ErrEmpty # ErrCharset /\ ErrCharset # ErrNoAlnum /\ ErrEmpty # ErrNoAlnum
    /\ vpc = "done" =>
        /\ name = <<>> => verdict = ErrEmpty
        /\ ~(CharsOf(name) \subseteq Alphanumerics \cup Separators)
              => verdict = ErrCharset
        /\ (verdict = ErrNoAlnum)
              <=> (name # <<>> /\ CharsOf(name) \subseteq Separators)

\* a name with an illegal character and no alphanumeric one, such as "- -",
\* has been refused for its characters
C9_Witness ==
    /\ vpc = "done"
    /\ " " \in CharsOf(name)
    /\ CharsOf(name) \cap Alphanumerics = {}
    /\ verdict = ErrCharset

\* ====================================================================
\* Properties of the ingest command
\* ====================================================================
\* the files of a tree that a scan takes for media files
media_files(fs) == {i \in 1..Len(fs) : detect_media_type(fs[i].ext).is_some}

\* C10: in a run without --dry-run, a turn of the copy loop skips its record
\* (no file is written, skipped grows by one, copied stays) exactly when the
\* record's hash is a key of the index built from the destination scan, and
\* copies it (copied grows by one, the destination holds its bytes under the
\* record's folder and label) otherwise; the index holds the hash of every
\* media file a successful destination scan met, whatever its path.
C10_SkipExactlyWhenIndexed ==
    [][ /\ (InCopyLoop /\ ipc' # "failed") =>
              IF current_item.hash \in dest_hashes
              THEN /\ skipped' = skipped + 1
                   /\ copied' = copied
                   /\ dest_fs' = dest_fs
              ELSE /\ copied' = copied + 1
                   /\ skipped' = skipped
                   /\ \E i \in 1..Len(dest_fs') :
                         /\ dest_fs'[i].hash = current_item.hash
                         /\ \E fallback \in FallbackTimes(current_item) :
                               dest_fs'[i].path
                                  = dest_file_of(current_item,
                                                 batches_with_names[batch_idx].name,
                                                 fallback)
        /\ (ipc = "scan_dest" /\ ipc' = "copy" /\ scan_directory(dest_fs).ok) =>
              \A i \in media_files(dest_fs) : dest_fs[i].hash \in dest_hashes'
      ]_vars

\* a run ended in which a record was copied and another, whose bytes the
\* destination held under the path of a former run, was skipped
C10_Witness ==
    /\ ipc = "done"
    /\ ~dry_run
    /\ copied >= 1
    /\ skipped >= 1
    /\ \E i \in 1..Len(source_items) :
          \E j \in 1..Len(dest_fs) :
             /\ dest_fs[j].hash = source_items[i].hash
             /\ dest_fs[j].path.folder = existing_folder
             /\ source_items[i].hash \in dest_hashes

(***************************************************************************)
(* Plan outcomes                                                           *)
(***************************************************************************)
Successful == ipc = "done" /\ error = ""

\* C11: in an ingest without --dry-run that succeeds, under either labeling
\* strategy, every record the source scan found is copied or skipped:
\* copied + skipped is the number of source records, records without a
\* timestamp included.
C11_EveryRecordHasAnOutcome ==
    (Successful /\ ~dry_run) => copied + skipped = Len(source_items)

(***************************************************************************)
(* --dry-run                                                               *)
(***************************************************************************)
\* C12: with --dry-run no step of ingest changes the destination: neither
\* the destination root nor a date folder is created and no file is copied,
\* under either labeling strategy, and no step asks for a batch name.
C12_DryRunLeavesDestination ==
    [][dry_run => (/\ dest_fs' = dest_fs
                   /\ dest_dirs' = dest_dirs
                   /\ ipc' \notin {"prompt", "create_dest", "scan_dest", "copy"})]_vars

\* a dry run over two temporal batches has ended, the destination still
\* missing although a plan of two batches was made
C12_Witness ==
    /\ dry_run
    /\ Successful
    /\ ~batch_name.is_some
    /\ Len(batches_with_names) = 2
    /\ dest_dirs = {}
    /\ dest_fs = <<>>

(***************************************************************************)
(* --batch-name                                                            *)
(***************************************************************************)
InvalidArg == batch_name.is_some /\ validate_batch_name(batch_name.value) # "Ok"

\* C13: when the value of --batch-name does not pass validate_batch_name,
\* ingest fails with "Invalid batch name", and it does so before the source
\* is scanned and before anything is created or copied: no source record is
\* ever held and the destination stays as it was found.
C13_InvalidArgFailsFirst ==
    InvalidArg =>
        /\ ipc \in {"start", "failed"}
        /\ ipc = "failed" => error = "Invalid batch name"
        /\ source_items = <<>>
        /\ dest_fs \in DestTrees
        /\ dest_dirs = IF dest_fs = <<>> THEN {} ELSE {dest_root, existing_folder}
        /\ dest_hashes = {}
        /\ copied = 0 /\ skipped = 0

\* an ingest over a source holding a media file has failed on its name
C13_Witness ==
    /\ InvalidArg
    /\ ipc = "failed"
    /\ error = "Invalid batch name"
    /\ media_files(source_fs) # {}
    /\ ~dry_run

(***************************************************************************)
(* Batch labels                                                            *)
(***************************************************************************)
WellFormedLabel(n) ==
    /\ n # <<>>
    /\ \A i \in 1..Len(n) : n[i] \in Letters \cup Digits \cup Separators
    /\ \E i \in 1..Len(n) : n[i] \in Letters \cup Digits

\* C14: every label of the plan, and so every label handed to
\* generate_filename, passes validate_batch_name: it is the --batch-name
\* value, or the placeholder batch-{n} of a dry run, or a line of input as
\* prompt_for_batch_name trimmed it, and in each case it is not empty, made
\* of alphanumerics, '-' and '_' only, and holds an alphanumeric.
C14_LabelsAreValid ==
    \A k \in 1..Len(batches_with_names) :
        LET label == batches_with_names[k].name IN
        /\ validate_batch_name(label) = "Ok"
        /\ WellFormedLabel(label)
        /\ IF batch_name.is_some THEN label = batch_name.value
           ELSE IF dry_run THEN label = placeholder_name(k - 1)
           ELSE \E line \in InputLines : label = trim(line)

\* a file was copied under a label that the prompt read with blanks around it
C14_Witness ==
    /\ ~batch_name.is_some
    /\ ~dry_run
    /\ copied >= 1
    /\ \E k \in 1..Len(batches_with_names) : batches_with_names[k].name = <<"Z">>
    /\ \E i \in 1..Len(dest_fs) :
          dest_fs[i].path.folder # existing_folder /\ "Z" \in CharsOf(dest_fs[i].path.file)

(***************************************************************************)
(* Interactive naming                                                      *)
(***************************************************************************)
Interactive == ~batch_name.is_some /\ ~dry_run

\* the files of the destination that this run wrote
WrittenFiles == {i \in 1..Len(dest_fs) : dest_fs[i].path.folder # existing_folder}

\* the date and time part of a filename
stamp_text(filename) == SubSeq(filename, 1, 15)

\* C15: in interactive mode the batches are named one at a time in
\* ascending time order, the k-th name accepted going to the k-th batch;
\* nothing is created, copied or skipped before every batch has its name;
\* and every file written comes from a record of some batch k and carries
\* the name given to that batch, never the name of another batch.
C15_PromptsInOrderBeforeCopy ==
    Interactive =>
        /\ Len(batches_with_names) <= Len(batches)
        /\ \A k \in 1..Len(batches_with_names) :
              batches_with_names[k].batch = batches[k]
        /\ \A k \in 1..(Len(batches) - 1) :
              batches[k].end_time < batches[k + 1].start_time
        /\ ipc \in {"create_dest", "scan_dest", "copy"}
              => Len(batches_with_names) = Len(batches)
        /\ Len(batches_with_names) < Len(batches)
              => /\ copied = 0 /\ skipped = 0
                 /\ dest_fs \in DestTrees
                 /\ dest_dirs = IF dest_fs = <<>> THEN {}
                                ELSE {dest_root, existing_folder}
        /\ \A f \in WrittenFiles :
              /\ \E k \in 1..Len(batches_with_names) :
                    \E j \in 1..Len(batches[k].items) :
                        LET item == batches[k].items[j] IN
                        /\ dest_fs[f].hash = item.hash
                        /\ dest_fs[f].path
                              = dest_file_of(item, batches_with_names[k].name, 0)
              /\ \A k \in 1..Len(batches_with_names) :
                    \A j \in 1..Len(batches[k].items) :
                        LET item == batches[k].items[j]
                            own  == dest_file_of(item, batches_with_names[k].name, 0) IN
                        (/\ dest_fs[f].hash = item.hash
                         /\ stamp_text(dest_fs[f].path.file) = stamp_text(own.file)
                         /\ dest_fs[f].ext = Some(extension_of(item)))
                            => dest_fs[f].path = own

\* two batches were named "a" and then "Z", and a file of each was copied
C15_Witness ==
    /\ Interactive
    /\ Successful
    /\ Len(batches) = 2
    /\ batches_with_names[1].name = <<"a">>
    /\ batches_with_names[2].name = <<"Z">>
    /\ copied = 2
    /\ Cardinality(WrittenFiles) = 2

(***************************************************************************)
(* Single batch                                                            *)
(***************************************************************************)
\* C16: with --batch-name the records are not batched by time: the plan, once
\* made, is one batch that holds every scanned record, those further apart
\* than the gap threshold and those without timestamp included, under the
\* given label, and its start_time and end_time are the least and the
\* greatest timestamp present among the records.
C16_SingleBatchHoldsAll ==
    batch_name.is_some =>
        /\ batches = <<>>
        /\ ipc # "prompt"
        /\ ipc \in {"create_dest", "scan_dest", "copy"} => batches_with_names # <<>>
        /\ batches_with_names # <<>> =>
              LET all_batch == batches_with_names[1].batch
                  present   == {source_items[i].timestamp.value :
                                   i \in {j \in 1..Len(source_items) :
                                             source_items[j].timestamp.is_some}} IN
              /\ Len(batches_with_names) = 1
              /\ batches_with_names[1].name = batch_name.value
              /\ all_batch.items = source_items
              /\ present # {} =>
                    /\ all_batch.start_time \in present
                    /\ all_batch.end_time \in present
                    /\ \A t \in present :
                          all_batch.start_time <= t /\ t <= all_batch.end_time

\* two records further apart than the gap threshold were copied as one batch
C16_Witness ==
    /\ batch_name.is_some
    /\ Successful
    /\ ~dry_run
    /\ Len(batches_with_names) = 1
    /\ Len(source_items) = 2
    /\ batches_with_names[1].batch.end_time - batches_with_names[1].batch.start_time
          > gap_threshold
    /\ copied = 2

(***************************************************************************)
(* The naming functions under test                                         *)
(***************************************************************************)
Years == {1, 33, 987, 2024, 9999, 12024}
Months == {1, 9, 12}
Days == {1, 28}
Hours == {0, 7, 23}
Minutes == {0, 59}
Seconds == {5, 59}

DateTimes ==
    {DateTime(y, mo, d, h, mi, s) :
        y \in Years, mo \in Months, d \in Days, h \in Hours, mi \in Minutes,
        s \in Seconds}

\* batch names as generate_filename may be given them
NameLabels == {<<"a">>, <<"b", "-", "7", "_", "Z">>}

\* what Path::extension gives: nothing, or the text after the last dot
PathExtensions == {None, Some("jpg"), Some("MOV"), Some("txt")}

NamingInit ==
    /\ nm_timestamp \in DateTimes
    /\ nm_label \in NameLabels
    /\ nm_extension \in PathExtensions
    /\ nm_folder = <<>>
    /\ nm_filename = <<>>
    /\ npc = "start"
    /\ BatchIdle
    /\ ValidateIdle
    /\ IngestIdle
    /\ PromptIdle

\* generate_folder_path(timestamp) and
\* generate_filename(timestamp, batch_name, extension), the extension being
\* the one of the path or "jpg"
Name ==
    /\ npc = "start"
    /\ nm_folder' = generate_folder_path(nm_timestamp)
    /\ nm_filename' = generate_filename(nm_timestamp, nm_label,
                                        extension_of([ext |-> nm_extension]))
    /\ npc' = "done"
    /\ UNCHANGED <<pvars, bvars, vvars, ivars, nm_timestamp, nm_label, nm_extension>>

NamingNext == Name

NamingSpec == NamingInit /\ [][NamingNext]_vars

\* the naming functions on their own and as ingest uses them
NamingIngestInit == NamingInit \/ IngestInit
NamingIngestNext == NamingNext \/ IngestNext
NamingIngestSpec == NamingIngestInit /\ [][NamingIngestNext]_vars

(***************************************************************************)
(* Names                                                                   *)
(***************************************************************************)
IsDigits(text) == \A i \in 1..Len(text) : text[i] \in Digits

digit_value(c) ==
    CHOOSE d \in 0..9 : <<"0", "1", "2", "3", "4", "5", "6", "7", "8", "9">>[d + 1] = c

\* the number a text of decimal digits writes
RECURSIVE number(_)
number(text) ==
    IF text = <<>> THEN 0
    ELSE 10 * number(SubSeq(text, 1, Len(text) - 1)) + digit_value(text[Len(text)])

\* text is digits that write the number n
Writes(text, n) == IsDigits(text) /\ number(text) = n

\* the digits the year takes: 4, and 5 from the year 10000 on (the years
\* here are below 100000)
year_width(dt) == IF dt.year < 10000 THEN 4 ELSE 5

\* folder reads YYYY/MM/DD for the date of dt
FolderShaped(folder, dt) ==
    LET w == year_width(dt) IN
    /\ Len(folder) = w + 6
    /\ Writes(SubSeq(folder, 1, w), dt.year)
    /\ folder[w + 1] = "/"
    /\ Writes(SubSeq(folder, w + 2, w + 3), dt.month)
    /\ folder[w + 4] = "/"
    /\ Writes(SubSeq(folder, w + 5, w + 6), dt.day)

\* filename reads YYYYMMDD-HHMMSS-{label}.{extension} for dt
FilenameShaped(filename, dt, label, extension) ==
    LET w == year_width(dt) IN
    /\ Len(filename) = w + 12 + Len(label) + 2
    /\ Writes(SubSeq(filename, 1, w), dt.year)
    /\ Writes(SubSeq(filename, w + 1, w + 2), dt.month)
    /\ Writes(SubSeq(filename, w + 3, w + 4), dt.day)
    /\ filename[w + 5] = "-"
    /\ Writes(SubSeq(filename, w + 6, w + 7), dt.hour)
    /\ Writes(SubSeq(filename, w + 8, w + 9), dt.minute)
    /\ Writes(SubSeq(filename, w + 10, w + 11), dt.second)
    /\ filename[w + 12] = "-"
    /\ SubSeq(filename, w + 13, w + 12 + Len(label)) = label
    /\ filename[w + 13 + Len(label)] = "."
    /\ filename[w + 14 + Len(label)] = extension

\* C17: for every timestamp, label and extension generate_filename returns
\* YYYYMMDD-HHMMSS-{label}.{extension} and generate_folder_path returns
\* YYYY/MM/DD, the year filled with zeros to 4 digits (a year from 10000 on
\* takes its 5) and month, day, hour, minute and second to 2, all from the
\* fields of the one timestamp;
\* and every file ingest copies lies in the folder of its record under such
\* a filename, made from the record's timestamp, its batch label and its
\* extension.
C17_NamesAreShaped ==
    /\ npc = "done" =>
          /\ FolderShaped(nm_folder, nm_timestamp)
          /\ \E extension \in {"jpg", "MOV", "txt"} :
                /\ nm_extension.is_some => extension = nm_extension.value
                /\ FilenameShaped(nm_filename, nm_timestamp, nm_label, extension)
    /\ \A f \in WrittenFiles :
          \E i \in 1..Len(source_items), k \in 1..Len(batches_with_names) :
              LET item == source_items[i] IN
              /\ dest_fs[f].hash = item.hash
              /\ dest_fs[f].path.folder = item.folder_path
              /\ item.timestamp.is_some
                    => FolderShaped(item.folder_path, utc(item.timestamp.value))
              /\ \E t \in FallbackTimes(item) :
                    FilenameShaped(dest_fs[f].path.file, utc(t),
                                   batches_with_names[k].name, extension_of(item))

\* 0033-09-01 07:00:05 was named: every field but the label needed zeros
C17_Witness ==
    /\ npc = "done"
    /\ nm_timestamp = DateTime(33, 9, 1, 7, 0, 5)
    /\ nm_label = <<"a">>
    /\ nm_folder = <<"0", "0", "3", "3", "/", "0", "9", "/", "0", "1">>
    /\ nm_filename = <<"0", "0", "3", "3", "0", "9", "0", "1", "-",
                       "0", "7", "0", "0", "0", "5", "-", "a", ".", "jpg">>

(***************************************************************************)
(* Name collisions                                                         *)
(***************************************************************************)
\* C18: names are not kept apart: two distinct records of a batch that have
\* the same timestamp and the same extension get the same folder and the
\* same filename under the batch's label, and a copy whose destination path
\* already holds a file takes that file's place, so the copy of the second
\* record is written over the copy of the first.
C18_SecondCopyTakesThePath ==
    [][/\ \A k \in 1..Len(batches_with_names) :
            LET its == batches_with_names[k].batch.items IN
            \A i \in 1..Len(its), j \in 1..Len(its) :
                (/\ i # j
                 /\ its[i].timestamp.is_some
                 /\ its[i].timestamp = its[j].timestamp
                 /\ extension_of(its[i]) = extension_of(its[j]))
                    => dest_file_of(its[i], batches_with_names[k].name, 0)
                          = dest_file_of(its[j], batches_with_names[k].name, 0)
       /\ copied' = copied + 1 =>
            \E t \in FallbackTimes(current_item) :
                LET p == dest_file_of(current_item,
                                      batches_with_names[batch_idx].name, t) IN
                /\ \E j \in 1..Len(dest_fs') :
                      dest_fs'[j].path = p /\ dest_fs'[j].hash = current_item.hash
                /\ (\E j \in 1..Len(dest_fs) : dest_fs[j].path = p)
                      => /\ Len(dest_fs') = Len(dest_fs)
                         /\ \A j \in 1..Len(dest_fs) :
                               dest_fs[j].path # p => dest_fs'[j] = dest_fs[j]
                         /\ \A j \in 1..Len(dest_fs) :
                               dest_fs[j].path = p
                                  => dest_fs'[j].hash = current_item.hash]_vars

\* two records of different content were both counted as copied, and the
\* destination holds one file, with the bytes of the second
C18_Witness ==
    /\ Successful
    /\ ~dry_run
    /\ Len(source_items) = 2
    /\ source_items[1].hash # source_items[2].hash
    /\ copied = 2
    /\ Cardinality(WrittenFiles) = 1
    /\ \A f \in WrittenFiles : dest_fs[f].hash = source_items[2].hash

(***************************************************************************)
(* Extensions                                                              *)
(***************************************************************************)
\* the filename of a record whose source path has no extension ends
\* in ".jpg"; the filename of any other record ends in "." and the
\* extension of its path, letter for letter.
C19_NamedExtension ==
    npc = "done" =>
        /\ Len(nm_filename) >= 2
        /\ nm_filename[Len(nm_filename) - 1] = "."
        /\ ~nm_extension.is_some => nm_filename[Len(nm_filename)] = "jpg"
        /\ nm_extension.is_some
              => nm_filename[Len(nm_filename)] = nm_extension.value

\* C19: a filename made for a source path without extension ends in ".jpg",
\* and one made for a path with an extension ends in that extension
\* unchanged; so it is for the files ingest copies: each ends in the
\* extension of the path of a source record of the same content. (Every
\* record of a scan has an extension, the media type being read from it.)
C19_ExtensionKeptOrJpg ==
    /\ C19_NamedExtension
    /\ \A i \in 1..Len(source_items) : source_items[i].ext.is_some
    /\ \A f \in WrittenFiles :
          \E i \in 1..Len(source_items) :
              /\ dest_fs[f].hash = source_items[i].hash
              /\ dest_fs[f].path.file[Len(dest_fs[f].path.file)]
                    = source_file(source_items[i]).ext.value

\* a path without extension was named
C19_Witness ==
    /\ npc = "done"
    /\ nm_extension = None
    /\ nm_label = <<"a">>
    /\ SubSeq(nm_filename, Len(nm_filename) - 3, Len(nm_filename))
          = <<"-", "a", ".", "jpg">>

(***************************************************************************)
(* Files without any time                                                  *)
(***************************************************************************)
\* a media file with no embedded capture time whose modification time
\* cannot be read
NoTime(file) ==
    /\ detect_media_type(file.ext).is_some
    /\ ~get_capture_timestamp(file, detect_media_type(file.ext).value).is_some
    /\ ~file.mtime.is_some

ScanFailed == ipc = "failed" /\ error = "Failed to scan source directory"
ScanSucceeded ==
    /\ ipc \notin {"start", "scan_source"}
    /\ ~(ipc = "failed" /\ error \in {"Invalid batch name",
                                      "Failed to scan source directory"})

\* C20 as stated: a media file with no embedded capture time and no readable
\* modification time fails the scan: the source scan never succeeds with
\* such a file in the tree, and no record list holds it.
C20_NoTimeFailsScan ==
    (\E i \in 1..Len(source_fs) : NoTime(source_fs[i]))
        => ~ScanSucceeded /\ source_items = <<>>

\* C20, amended: a media file with no embedded capture time and no readable
\* modification time does not fail the scan: a scan fails only over a media
\* file whose content cannot be read, and a scan that succeeds returns, for
\* each such file, a record with timestamp None and folder_path
\* "unknown-date".
C20_NoTimeGivesUndatedRecord ==
    /\ ScanFailed =>
          \E i \in 1..Len(source_fs) :
              detect_media_type(source_fs[i].ext).is_some /\ ~source_fs[i].readable
    /\ ScanSucceeded =>
          \A i \in 1..Len(source_fs) :
              NoTime(source_fs[i]) =>
                  \E j \in 1..Len(source_items) :
                      /\ source_items[j].path = i
                      /\ source_items[j].timestamp = None
                      /\ source_items[j].folder_path = unknown_date

\* a record without any time was scanned, planned under --batch-name and
\* copied into unknown-date
C20_Witness ==
    /\ Successful
    /\ ~dry_run
    /\ copied >= 1
    /\ \E j \in 1..Len(source_items) :
          /\ NoTime(source_file(source_items[j]))
          /\ source_items[j].timestamp = None
    /\ \E f \in WrittenFiles : dest_fs[f].path.folder = unknown_date

(***************************************************************************)
(* Scan failures                                                           *)
(***************************************************************************)
\* the destination as the run found it holds a media file that cannot be
\* read, so that scan_directory fails on it
DestScanFails ==
    \E i \in 1..Len(dest_fs) :
        /\ dest_fs[i].path.folder = existing_folder
        /\ detect_media_type(dest_fs[i].ext).is_some
        /\ ~dest_fs[i].readable

SourceScanFails == ~scan_directory(source_fs).ok

\* the run is past the scan of the destination
PastScanDest == ipc = "copy" \/ (ipc \in {"done", "failed"} /\ batch_idx >= 1)

\* C21: a scan that fails is never passed over: when the scan of the source
\* fails, or the scan of the destination that builds the duplicate index
\* fails, ingest ends with an error and no file is copied or skipped after
\* it.
C21_FailedScanAborts ==
    /\ (SourceScanFails /\ ipc \notin {"start", "scan_source"})
          => /\ ipc = "failed"
             /\ source_items = <<>>
             /\ copied = 0 /\ skipped = 0
    /\ (DestScanFails /\ PastScanDest)
          => /\ ipc = "failed"
             /\ error \notin {"", "Failed to copy", "Failed to create date-based folder"}
             /\ copied = 0 /\ skipped = 0

(***************************************************************************)
(* The cached folder                                                       *)
(***************************************************************************)
\* the records a scan of fs builds (none when it fails)
RecordsOf(fs) ==
    LET r == scan_directory(fs) IN {r.items[i] : i \in 1..Len(r.items)}

FolderCached(rec) ==
    /\ rec.timestamp.is_some
          => /\ rec.folder_path = generate_folder_path(utc(rec.timestamp.value))
             /\ FolderShaped(rec.folder_path, utc(rec.timestamp.value))
    /\ (rec.folder_path = unknown_date) <=> ~rec.timestamp.is_some

\* C22: every record scan_directory builds, of the source or of the
\* destination, has the folder_path generate_folder_path gives for its
\* timestamp when it has one, and "unknown-date" exactly when it has none;
\* the copy loop creates and writes into that folder_path only: a file it
\* wrote lies in the folder_path of its record, also when its filename was
\* made from a fallback time.
C22_FolderIsCached ==
    /\ \A rec \in RecordsOf(source_fs) : FolderCached(rec)
    /\ \A rec \in RecordsOf(dest_fs) : FolderCached(rec)
    /\ \A i \in 1..Len(source_items) : FolderCached(source_items[i])
    /\ dest_dirs \subseteq
          {dest_root, existing_folder}
              \cup {source_items[i].folder_path : i \in 1..Len(source_items)}
    /\ \A f \in WrittenFiles :
          \E i \in 1..Len(source_items), k \in 1..Len(batches_with_names) :
              LET item == source_items[i] IN
              /\ dest_fs[f].hash = item.hash
              /\ dest_fs[f].path.folder = item.folder_path
              /\ \E t \in FallbackTimes(item) :
                    dest_fs[f].path.file
                       = generate_filename(utc(t), batches_with_names[k].name,
                                           extension_of(item))

\* a record without timestamp was copied: its file lies in unknown-date
\* under a name dated 2024-11-05 16:00:00, the time of the copy
C22_Witness ==
    /\ Successful
    /\ \E f \in WrittenFiles :
          /\ dest_fs[f].path.folder = <<"unknown-date">>
          /\ stamp_text(dest_fs[f].path.file)
                = <<"2", "0", "2", "4", "1", "1", "0", "5", "-",
                    "1", "6", "0", "0", "0", "0">>

(***************************************************************************)
(* Conservation and monotonicity of the batching                           *)
(***************************************************************************)
\* C23: the batches hold the timestamped records of the input and nothing
\* else: their items, read in output order, are those records in ascending
\* timestamp order, records of equal timestamp in input order; so each such
\* record is at exactly one place of exactly one batch, no record is
\* invented, and no batch is empty.
C23_BatchesConserveRecords ==
    Grouped =>
        /\ Flat = sort_by_timestamp(filter_timestamped(items))
        /\ Len(Flat) = Cardinality(Timestamped)
        /\ \A i \in Timestamped :
              Cardinality({p \in 1..Len(Flat) : Flat[p] = items[i]}) = 1
        /\ \A p \in 1..Len(Flat) :
              /\ Flat[p].path \in Timestamped
              /\ Flat[p] = items[Flat[p].path]
        /\ \A p \in 1..(Len(Flat) - 1) :
              \/ ts(Flat[p]) < ts(Flat[p + 1])
              \/ ts(Flat[p]) = ts(Flat[p + 1]) /\ Flat[p].path < Flat[p + 1].path
        /\ \A k \in 1..Len(batches) : batches[k].items # <<>>

\* four records, one without timestamp and the others not in time order,
\* came out as three records in two batches
C23_Witness ==
    /\ bpc = "grouped"
    /\ Len(items) = 4
    /\ Cardinality(Timestamped) = 3
    /\ \E i, j \in Timestamped : i < j /\ ts(items[j]) < ts(items[i])
    /\ Len(batches) = 2
    /\ Len(Flat) = 3

\* the items of batches a..b of bs, in order
ItemsOfRun(bs, a, b) == Concat([k \in 1..(b - a + 1) |-> bs[a + k - 1].items])

\* C24: a larger threshold only merges: for the same input and a second
\* threshold not below the first, every batch under the second threshold is
\* the concatenation of consecutive batches under the first, every batch
\* under the first lies within one batch under the second, and there are
\* no more batches under the second than under the first.
C24_WiderThresholdMerges ==
    bpc = "widened" =>
        /\ ~panicked
        /\ Len(widened) <= Len(batches)
        /\ \A m \in 1..Len(widened) :
              \E a \in 1..Len(batches), b \in 1..Len(batches) :
                  /\ a <= b
                  /\ widened[m].items = ItemsOfRun(batches, a, b)
                  /\ widened[m].start_time = batches[a].start_time
                  /\ widened[m].end_time = batches[b].end_time
        /\ \A k \in 1..Len(batches) :
              \E m \in 1..Len(widened) :
                  \E from \in 1..Len(widened[m].items) :
                      /\ from + Len(batches[k].items) - 1 <= Len(widened[m].items)
                      /\ batches[k].items
                            = SubSeq(widened[m].items, from,
                                     from + Len(batches[k].items) - 1)
        /\ Concat([m \in 1..Len(widened) |-> widened[m].items]) = Flat

\* three batches under the first threshold became two under the second
C24_Witness ==
    /\ bpc = "widened"
    /\ gap_threshold < wider_threshold
    /\ Len(batches) = 3
    /\ Len(widened) = 2

(***************************************************************************)
(* Duplicates within a run                                                 *)
(***************************************************************************)
\* the content hashes among the records of the source
SourceHashes == {source_items[i].hash : i \in 1..Len(source_items)}

\* the records of the plan, in the order the copy loop takes them
Planned == Concat([k \in 1..Len(batches_with_names) |->
                      batches_with_names[k].batch.items])

\* C25: one run copies at most one file per content hash: the number of
\* files copied never exceeds the number of distinct hashes among the source
\* records, and a run over two records of one hash that the destination did
\* not hold ends with one copied and one skipped.
C25_OneCopyPerHash ==
    /\ copied <= Cardinality(SourceHashes)
    /\ (/\ Successful
        /\ ~dry_run
        /\ Len(Planned) = 2
        /\ Planned[1].hash = Planned[2].hash
        /\ \A j \in 1..Len(dest_fs) :
              dest_fs[j].path.folder = existing_folder
                 => dest_fs[j].hash # Planned[1].hash)
          => copied = 1 /\ skipped = 1

(***************************************************************************)
(* Skipped records                                                         *)
(***************************************************************************)
\* C26: a turn of the copy loop that skips a record as a duplicate leaves
\* the destination as it was: no directory and no file is created, and of
\* the counters only skipped changes.
C26_SkipLeavesDestination ==
    [][(InCopyLoop /\ skipped' = skipped + 1)
          => /\ dest_dirs' = dest_dirs
             /\ dest_fs' = dest_fs
             /\ copied' = copied]_vars

(***************************************************************************)
(* The prompt under test                                                   *)
(***************************************************************************)
\* what standard input holds: some lines, then its end
InputStreams == SeqsUpTo(InputLines \ {<<>>}, MaxLines)

PromptInit ==
    /\ stdin \in InputStreams
    /\ prompts = 0
    /\ returned_name = None
    /\ ppc = "loop"
    /\ BatchIdle
    /\ ValidateIdle
    /\ IngestIdle
    /\ NamingIdle

\* io::stdin().read_line(&mut input): the next line, or nothing read at the
\* end of input
read_line(stream) == IF stream = <<>> THEN <<>> ELSE Head(stream)

\* one turn of the loop of prompt_for_batch_name: the prompt is printed, a
\* line is read and trimmed, and it is returned when it validates; if not,
\* the loop goes round
PromptTurn ==
    /\ ppc = "loop"
    /\ prompts < MaxPrompts
    /\ prompts' = prompts + 1
    /\ stdin' = IF stdin = <<>> THEN <<>> ELSE Tail(stdin)
    /\ LET input == read_line(stdin)
           answer == trim(input) IN
        IF validate_batch_name(answer) = "Ok"
        THEN ppc' = "returned" /\ returned_name' = Some(answer)
        ELSE ppc' = "loop" /\ returned_name' = returned_name
    /\ UNCHANGED <<bvars, vvars, ivars, nvars>>

\* io::stdout().flush()? or io::stdin().read_line(&mut input)? fails
PromptTurnFails ==
    /\ ppc = "loop"
    /\ ppc' = "failed"
    /\ UNCHANGED <<bvars, vvars, ivars, nvars, stdin, prompts, returned_name>>

PromptNext == PromptTurn \/ PromptTurnFails

PromptSpec == PromptInit /\ [][PromptNext]_vars

\* C27: prompt_for_batch_name ends on every input: a turn that reads a line
\* that validates returns it, and a turn that finds standard input at its
\* end leaves the loop, with a result or an error, instead of prompting
\* again.
C27_PromptEnds ==
    [][ppc = "loop" =>
          /\ (stdin # <<>> /\ validate_batch_name(trim(Head(stdin))) = "Ok"
                 /\ ppc' # "failed")
                => ppc' = "returned" /\ returned_name' = Some(trim(Head(stdin)))
          /\ stdin = <<>> => ppc' # "loop"]_vars

====
